---------------------------- MODULE Spec2Model ----------------------------
(***************************************************************************)
(* A model of form4_screener.py: the Form 4 screener (class Form4Screener  *)
(* and the script under `if __name__ == "__main__"`).                      *)
(*                                                                         *)
(* Representation of the Python values:                                    *)
(*   str          a sequence of one-character strings (<<"P">>, <<>>)      *)
(*   None / str   NONE (= <<>>) or Some(s) (= <<s>>)                       *)
(*   dict         a sequence of <<key, value>> pairs, in insertion order   *)
(*   Element      [tag, text, children]; tag is the Clark-notation tag of  *)
(*                ElementTree cut into tokens: <<"{", uri, "}", local>> in *)
(*                a namespace, <<local>> outside one                       *)
(*   date string  <<y, m, d>>, the three numeric fields of "y-m-d", or     *)
(*                <<>> for a string that does not have that shape          *)
(*   raise        a result record with ok = FALSE and the exception's name *)
(***************************************************************************)
EXTENDS Integers, Sequences, FiniteSets, TLC

VARIABLES pc, start_date, end_date, filings_json, form4_filings, idx,
          all_transactions, stdout, requests, responses, csvfile,
          input, result

vars == <<pc, start_date, end_date, filings_json, form4_filings, idx,
          all_transactions, stdout, requests, responses, csvfile,
          input, result>>

NONE == <<>>
Some(x) == <<x>>

\* Python truthiness of a value that is None or a str: None and '' are false.
Truthy(o) == o # NONE /\ o[1] # <<>>

\* a or b, for values that are None or a str.
PyOr(a, b) == IF Truthy(a) THEN a ELSE b

-----------------------------------------------------------------------------
(* str methods *)

Whitespace == {" ", "\n", "\t", "\r"}

RECURSIVE LStrip(_)
LStrip(s) == IF s # <<>> /\ Head(s) \in Whitespace THEN LStrip(Tail(s)) ELSE s

RECURSIVE RStrip(_)
RStrip(s) ==
  IF s # <<>> /\ s[Len(s)] \in Whitespace THEN RStrip(SubSeq(s, 1, Len(s) - 1)) ELSE s

\* str.strip()
Strip(s) == RStrip(LStrip(s))

UpperCase == <<"A","B","C","D","E","F","G","H","I","J","K","L","M",
               "N","O","P","Q","R","S","T","U","V","W","X","Y","Z">>
LowerCase == <<"a","b","c","d","e","f","g","h","i","j","k","l","m",
               "n","o","p","q","r","s","t","u","v","w","x","y","z">>

LowerChar(c) ==
  IF \E k \in DOMAIN UpperCase : UpperCase[k] = c
  THEN LowerCase[CHOOSE k \in DOMAIN UpperCase : UpperCase[k] = c]
  ELSE c

\* Mutant of Lower: the text is searched as it is.
Lower_Unchanged(s) == s

\* str.lower()
Lower(s) == [k \in DOMAIN s |-> LowerChar(s[k])]

\* sub in s
Contains(s, sub) ==
  \E k \in 0..(Len(s) - Len(sub)) : SubSeq(s, k + 1, k + Len(sub)) = sub

\* s.replace(ch, '')
Remove(s, ch) == SelectSeq(s, LAMBDA c : c # ch)

\* s.split(ch)[-1]: what follows the last ch, the whole of s when there is none
RECURSIVE LastSegment(_, _)
LastSegment(s, ch) ==
  IF \E k \in DOMAIN s : s[k] = ch THEN LastSegment(Tail(s), ch) ELSE s

\* s.find(tok): the 0-based position of the first tok, -1 when there is none
Find(s, tok) ==
  IF \E k \in DOMAIN s : s[k] = tok
  THEN (CHOOSE k \in DOMAIN s : s[k] = tok /\ \A j \in 1..(k - 1) : s[j] # tok) - 1
  ELSE -1

\* s[a:b] for 0 <= a
Slice(s, a, b) == SubSeq(s, a + 1, b)

-----------------------------------------------------------------------------
(* xml.etree.ElementTree *)

Elem(tag, text, children) == [tag |-> tag, text |-> text, children |-> children]

\* The tag ElementTree gives an element of namespace uri ("" for none).
Clark(uri, local) == IF uri = "" THEN <<local>> ELSE <<"{", uri, "}", local>>

RECURSIVE Descendants(_), DescendantsOf(_)
\* Element.iter() below el, el itself left out: document (pre)order.
DescendantsOf(cs) ==
  IF cs = <<>> THEN <<>>
  ELSE <<Head(cs)>> \o Descendants(Head(cs)) \o DescendantsOf(Tail(cs))
Descendants(el) == DescendantsOf(el.children)

RECURSIVE ChildrenOfAll(_)
ChildrenOfAll(els) ==
  IF els = <<>> THEN <<>> ELSE Head(els).children \o ChildrenOfAll(Tail(els))

\* The elements a path of qualified tags selects below the elements els.
RECURSIVE FindPath(_, _)
FindPath(els, qpath) ==
  IF qpath = <<>> THEN els
  ELSE FindPath(SelectSeq(ChildrenOfAll(els), LAMBDA c : c.tag = Head(qpath)),
                Tail(qpath))

\* el.find(qtag): the first child of that tag, or None
ElemFind(el, qtag) ==
  LET m == FindPath(<<el>>, <<qtag>>) IN IF m = <<>> THEN NONE ELSE Some(m[1])

\* el.findtext(path, None): the text of the first match ('' for no text), or None
ElemFindText(el, qpath) ==
  LET m == FindPath(<<el>>, qpath) IN IF m = <<>> THEN NONE ELSE Some(m[1].text)

\* root.findall('.//tag')
FindAllDeep(root, qtag) == SelectSeq(Descendants(root), LAMBDA e : e.tag = qtag)

\* ET.fromstring(xml_content.strip()): the text is not parsed character by
\* character here; a document carries the tree its text parses to, and NONE
\* stands for text that is not well-formed (ParseError).
ET_fromstring(xml_content) == xml_content.parsed


-----------------------------------------------------------------------------
(* Form4Screener.parse_non_derivative *)

\* Text constants of the source, as character sequences.
T_Unknown == <<"U","n","k","n","o","w","n">>
T_BUY == <<"B","U","Y">>
T_SELL == <<"S","E","L","L">>
T_OTHER == <<"O","T","H","E","R">>

BuyCodes == {<<"P">>, <<"F">>, <<"A">>, <<"M">>, <<"E">>, <<"J">>}
SellCodes == {<<"S">>, <<"D">>, <<"G">>, <<"W">>}

\* ns_url: what stands between "{" and "}" in the root's tag, '' without "}".
NsUrl(root) ==
  IF \E k \in DOMAIN root.tag : root.tag[k] = "}"
  THEN Slice(root.tag, Find(root.tag, "{") + 1, Find(root.tag, "}"))
  ELSE <<>>

\* Mutant of Qualify: the name is looked up without the root's namespace.
Qualify_Unprefixed(ns_url, p) == <<p>>

\* f"{prefix}{p}" resolved against NS = {'ns': ns_url}: the qualified tag looked up.
Qualify(ns_url, p) == IF ns_url # <<>> THEN <<"{">> \o ns_url \o <<"}", p>> ELSE <<p>>

\* find_text(el, path); el is None or an element, path a sequence of names.
find_text(ns_url, el, path) ==
  IF el = NONE THEN NONE
  ELSE ElemFindText(el[1], [k \in DOMAIN path |-> Qualify(ns_url, path[k])])

\* The dict appended to owners for one reportingOwner element.
OwnerDict(ns_url, owner) ==
  LET oid == ElemFind(owner, Qualify(ns_url, "reportingOwnerId"))
      rel == ElemFind(owner, Qualify(ns_url, "reportingOwnerRelationship"))
  IN << <<"officer_name",
          PyOr(find_text(ns_url, oid, <<"rptOwnerName">>),
               PyOr(find_text(ns_url, oid, <<"ownerName">>), Some(T_Unknown)))>>,
        <<"officer_title",
          PyOr(find_text(ns_url, rel, <<"officerTitle">>), Some(<<>>))>> >>

\* The owners list: one dict per reportingOwner element, in document order.
Owners(ns_url, root) ==
  LET els == FindAllDeep(root, Qualify(ns_url, "reportingOwner"))
  IN [k \in DOMAIN els |-> OwnerDict(ns_url, els[k])]

\* tx_code: the direct path, and the nested value path when that gives nothing.
TxCode(ns_url, tx) ==
  LET direct == find_text(ns_url, Some(tx), <<"transactionCoding", "transactionCode">>)
  IN IF ~Truthy(direct)
     THEN find_text(ns_url, Some(tx), <<"transactionCoding", "transactionCode", "value">>)
     ELSE direct

\* Mutant of Classify: the code is looked up without strip().
Classify_Unstripped(tx_code) ==
  IF Truthy(tx_code) /\ tx_code[1] \in BuyCodes THEN T_BUY
  ELSE IF Truthy(tx_code) /\ tx_code[1] \in SellCodes THEN T_SELL
  ELSE T_OTHER

\* tx_type: the classification of a transaction code (None or a str).
Classify(tx_code) ==
  IF Truthy(tx_code) /\ Strip(tx_code[1]) \in BuyCodes THEN T_BUY
  ELSE IF Truthy(tx_code) /\ Strip(tx_code[1]) \in SellCodes THEN T_SELL
  ELSE T_OTHER

\* The six transaction entries of the dict built for one transaction element.
TxFields(ns_url, tx) ==
  LET tx_code == TxCode(ns_url, tx)
  IN << <<"transaction_code", tx_code>>,
        <<"transaction_type", Some(Classify(tx_code))>>,
        <<"transaction_date", find_text(ns_url, Some(tx), <<"transactionDate", "value">>)>>,
        <<"shares", find_text(ns_url, Some(tx),
                      <<"transactionAmounts", "transactionShares", "value">>)>>,
        <<"price_per_share", find_text(ns_url, Some(tx),
                      <<"transactionAmounts", "transactionPricePerShare", "value">>)>>,
        <<"security_title", find_text(ns_url, Some(tx), <<"securityTitle", "value">>)>> >>

\* d[key] of a dict whose keys include key
Get(d, key) == d[CHOOSE k \in DOMAIN d : d[k][1] = key][2]

\* list(d.keys())
Keys(d) == [k \in DOMAIN d |-> d[k][1]]

\* The line printed for one appended transaction.
TxLine(transaction) ==
  [kind |-> "transaction",
   date |-> Get(transaction, "transaction_date"),
   name |-> Get(transaction, "officer_name"),
   type |-> Get(transaction, "transaction_type"),
   shares |-> Get(transaction, "shares"),
   security |-> Get(transaction, "security_title"),
   price |-> Get(transaction, "price_per_share")]

\* Mutant of OwnerLoop: a transaction is given to the first owner only.
OwnerLoop_FirstOwnerOnly(owners, fields) ==
  IF owners = <<>> THEN <<>> ELSE <<Head(owners) \o fields>>

\* for owner in owners: the dicts {**owner, ...} of one transaction
RECURSIVE OwnerLoop(_, _)
OwnerLoop(owners, fields) ==
  IF owners = <<>> THEN <<>>
  ELSE <<Head(owners) \o fields>> \o OwnerLoop(Tail(owners), fields)

\* for tx in root.findall(...): the transactions list
RECURSIVE TxLoop(_, _, _)
TxLoop(ns_url, txs, owners) ==
  IF txs = <<>> THEN <<>>
  ELSE OwnerLoop(owners, TxFields(ns_url, Head(txs))) \o TxLoop(ns_url, Tail(txs), owners)

\* parse_non_derivative(xml_content): the list returned and the lines printed,
\* or the ParseError raised by ET.fromstring.
parse_non_derivative(xml_content) ==
  LET parsed == ET_fromstring(xml_content) IN
  IF parsed = NONE
  THEN [ok |-> FALSE, error |-> "ParseError", value |-> <<>>, printed |-> <<>>]
  ELSE
    LET root == parsed[1]
        ns_url == NsUrl(root)
        owners == Owners(ns_url, root)
        txs == FindAllDeep(root, Qualify(ns_url, "nonDerivativeTransaction"))
        transactions == TxLoop(ns_url, txs, owners)
    IN [ok |-> TRUE, error |-> "", value |-> transactions,
        printed |-> [k \in DOMAIN transactions |-> TxLine(transactions[k])]]

-----------------------------------------------------------------------------
(* Form4Screener.filter_form4_filings *)

LeapYear(y) == (y % 4 = 0 /\ y % 100 # 0) \/ y % 400 = 0

DaysInMonth(y, m) ==
  IF m = 2 THEN (IF LeapYear(y) THEN 29 ELSE 28)
  ELSE IF m \in {4, 6, 9, 11} THEN 30 ELSE 31

\* Mutant of strptime: no ValueError; what is not a date is read as given, or
\* as the first day of the calendar.
strptime_Lenient(s) == IF Len(s) = 3 THEN Some(s) ELSE Some(<<1, 1, 1>>)

\* datetime.strptime(s, '%Y-%m-%d'): the date, or NONE for the ValueError raised
\* when s has not the shape y-m-d or names no day of the calendar.
strptime(s) ==
  IF /\ Len(s) = 3
     /\ s[1] \in 1..9999 /\ s[2] \in 1..12
     /\ s[3] \in 1..DaysInMonth(s[1], s[2])
  THEN Some(s) ELSE NONE

\* Mutant of DateLE: a < b, which shuts the boundary dates out.
DateLE_Exclusive(a, b) ==
  \/ a[1] < b[1]
  \/ a[1] = b[1] /\ a[2] < b[2]
  \/ a[1] = b[1] /\ a[2] = b[2] /\ a[3] < b[3]

\* a <= b for two datetimes: year, then month, then day.
DateLE(a, b) ==
  \/ a[1] < b[1]
  \/ a[1] = b[1] /\ a[2] < b[2]
  \/ a[1] = b[1] /\ a[2] = b[2] /\ a[3] <= b[3]

Min(S) == CHOOSE x \in S : \A y \in S : x <= y

\* The number of tuples zip() yields from the four lists of 'recent'.
ZipLen(recent) ==
  Min({Len(recent.form), Len(recent.filingDate),
       Len(recent.accessionNumber), Len(recent.primaryDocument)})

\* Mutant of Form4Types: the form type is not looked at.
Form4Types_AnyForm == {"4", "4/A", "8-K"}

\* if form_type not in ['4', '4/A']: continue
Form4Types == {"4", "4/A"}

Returns(v) == [ok |-> TRUE, error |-> "", value |-> v]
Raises(e) == [ok |-> FALSE, error |-> e, value |-> <<>>]

\* The body of the for loop for the tuples k..n, form4_filings being acc so far.
\* The dates are parsed where the code parses them: the filing date of a Form 4
\* entry first, then the start date, and the end date only when the filing date
\* is not before the start date.
RECURSIVE FilterLoop(_, _, _, _, _, _)
FilterLoop(recent, k, n, start, end, acc) ==
  IF k > n THEN Returns(acc)
  ELSE IF recent.form[k] \notin Form4Types
       THEN FilterLoop(recent, k + 1, n, start, end, acc)
  ELSE LET filing_dt == strptime(recent.filingDate[k]) IN
    IF filing_dt = NONE THEN Raises("ValueError")
    ELSE IF strptime(start) = NONE THEN Raises("ValueError")
    ELSE IF ~DateLE(strptime(start)[1], filing_dt[1])
         THEN FilterLoop(recent, k + 1, n, start, end, acc)
    ELSE IF strptime(end) = NONE THEN Raises("ValueError")
    ELSE IF ~DateLE(filing_dt[1], strptime(end)[1])
         THEN FilterLoop(recent, k + 1, n, start, end, acc)
    ELSE FilterLoop(recent, k + 1, n, start, end,
           Append(acc, [accession_number |-> recent.accessionNumber[k],
                        primaryDocument |-> recent.primaryDocument[k]]))

\* filter_form4_filings(filings_json, start_date, end_date); filings_json is
\* given by its 'recent' section.
filter_form4_filings(recent, start, end) ==
  FilterLoop(recent, 1, ZipLen(recent), start, end, <<>>)

-----------------------------------------------------------------------------
(* Form4Screener.fetch_xml *)

T_HtmlMarker == <<"<", "h", "t", "m", "l">>

\* str(int(cik)): the digits without their leading zeros
RECURSIVE IntStr(_)
IntStr(digits) ==
  IF Len(digits) > 1 /\ Head(digits) = "0" THEN IntStr(Tail(digits)) ELSE digits

\* The URL requested for a filing, by its three components.
FetchUrl(cik, accession_number, primary_document) ==
  [cik_num |-> IntStr(cik),
   acc_clean |-> Remove(accession_number, "-"),
   doc_name |-> LastSegment(primary_document, "/")]

\* resp.raise_for_status() raises for the statuses 400..599.
HttpError(status) == status >= 400 /\ status < 600

\* fetch_xml, given the response resp = [status, content] to its GET.
fetch_xml(resp) ==
  IF HttpError(resp.status) THEN Raises("HTTPError")
  ELSE IF Contains(Lower(resp.content.text), T_HtmlMarker) THEN Raises("ValueError")
  ELSE Returns(resp.content)

-----------------------------------------------------------------------------
(* Filing documents: the inputs of parse_non_derivative *)

MaxOwners == 2
MaxTxs == 2

SeqsUpTo(S, n) == UNION {[1..k -> S] : k \in 0..n}

NsUri == "http://www.sec.gov/edgar/ownership"

T_Dimon == <<"D","i","m","o","n">>
T_Lake == <<"L","a","k","e">>
T_CEO == <<"C","E","O">>
T_CFO == <<"C","F","O">>
T_Common == <<"C","o","m","m","o","n">>
Digits == <<"0","1","2","3","4","5","6","7","8","9">>
Digit(k) == Digits[(k % 10) + 1]

Leaf(ns, name, text) == Elem(Clark(ns, name), text, <<>>)
Valued(ns, name, text) == Elem(Clark(ns, name), <<>>, <<Leaf(ns, "value", text)>>)

\* The reportingOwner elements the documents are built from:
\*   "rpt"       reportingOwnerId/rptOwnerName and an officerTitle
\*   "alt"       an empty rptOwnerName, the name under ownerName, no relationship
\*   "anonymous" no reportingOwnerId; a relationship with an officerTitle
\*   "director"  an id without a name; a relationship without a title
OwnerKinds == {"rpt", "alt", "anonymous", "director"}

OwnerElem(ns, kind) ==
  Elem(Clark(ns, "reportingOwner"), <<>>,
    CASE kind = "rpt" ->
           << Elem(Clark(ns, "reportingOwnerId"), <<>>,
                   << Leaf(ns, "rptOwnerCik", <<"1">>), Leaf(ns, "rptOwnerName", T_Dimon) >>),
              Elem(Clark(ns, "reportingOwnerRelationship"), <<>>,
                   << Leaf(ns, "isOfficer", <<"1">>), Leaf(ns, "officerTitle", T_CEO) >>) >>
      [] kind = "alt" ->
           << Elem(Clark(ns, "reportingOwnerId"), <<>>,
                   << Leaf(ns, "rptOwnerName", <<>>), Leaf(ns, "ownerName", T_Lake) >>) >>
      [] kind = "anonymous" ->
           << Elem(Clark(ns, "reportingOwnerRelationship"), <<>>,
                   << Leaf(ns, "officerTitle", T_CFO) >>) >>
      [] OTHER ->
           << Elem(Clark(ns, "reportingOwnerId"), <<>>,
                   << Leaf(ns, "rptOwnerCik", <<"2">>) >>),
              Elem(Clark(ns, "reportingOwnerRelationship"), <<>>,
                   << Leaf(ns, "isDirector", <<"1">>) >>) >>)

\* How a transaction states its code:
\*   "absent"  no transactionCoding element
\*   "direct"  <transactionCode>text</transactionCode>
\*   "nested"  <transactionCode>pre<value>text</value></transactionCode>
Coding(form, pre, text) == [form |-> form, pre |-> pre, text |-> text]

CodeLetters == {"P", "F", "A", "M", "E", "J", "S", "D", "G", "W", "X", "p"}

CodeVariants ==
  {Coding("absent", <<>>, <<>>)}
    \cup {Coding("direct", <<>>, <<c>>) : c \in CodeLetters}
    \cup {Coding("direct", <<>>, t) : t \in {<<>>, <<" ", "P">>, <<"S", "\n">>, <<"P", "S">>}}
    \cup {Coding("nested", <<>>, <<"A">>), Coding("nested", <<"\n", " ">>, <<"S">>)}

BasicTxs ==
  {[coding |-> Coding("direct", <<>>, <<"P">>), priced |-> TRUE],
   [coding |-> Coding("direct", <<>>, <<"S">>), priced |-> FALSE],
   [coding |-> Coding("absent", <<>>, <<>>), priced |-> TRUE]}

CodedTxs == {[coding |-> c, priced |-> TRUE] : c \in CodeVariants}

CodingElems(ns, c) ==
  CASE c.form = "absent" -> <<>>
    [] c.form = "direct" ->
         << Elem(Clark(ns, "transactionCoding"), <<>>,
                 << Leaf(ns, "transactionFormType", <<"4">>),
                    Leaf(ns, "transactionCode", c.text) >>) >>
    [] OTHER ->
         << Elem(Clark(ns, "transactionCoding"), <<>>,
                 << Elem(Clark(ns, "transactionCode"), c.pre,
                         << Leaf(ns, "value", c.text) >>) >>) >>

\* The k-th transaction element of a document; its date and share count tell k.
TxElem(ns, tag, t, k) ==
  Elem(Clark(ns, tag), <<>>,
    << Valued(ns, "securityTitle", T_Common),
       Valued(ns, "transactionDate", <<"d", Digit(k)>>) >>
    \o CodingElems(ns, t.coding)
    \o << Elem(Clark(ns, "transactionAmounts"), <<>>,
            << Valued(ns, "transactionShares", <<Digit(k), "0", "0">>) >>
            \o (IF t.priced THEN << Valued(ns, "transactionPricePerShare", <<"9", Digit(k)>>) >>
                ELSE <<>>)) >>)

\* The tree of a filing document: the owners, the non-derivative transactions
\* (inside a nonDerivativeTable when nested, else directly under the root), and
\* a derivativeTable holding one derivativeTransaction.
DocRoot(d) ==
  LET owners == [k \in DOMAIN d.owners |-> OwnerElem(d.ns, d.owners[k])]
      txs == [k \in DOMAIN d.txs |->
                TxElem(d.ns, "nonDerivativeTransaction", d.txs[k], k)]
      deriv == Elem(Clark(d.ns, "derivativeTable"), <<>>,
                 << TxElem(d.ns, "derivativeTransaction",
                           [coding |-> Coding("direct", <<>>, <<"M">>), priced |-> TRUE], 0) >>)
  IN Elem(Clark(d.ns, "ownershipDocument"), <<"\n">>,
       << Leaf(d.ns, "documentType", <<"4">>) >>
       \o owners
       \o (IF d.nested THEN << Elem(Clark(d.ns, "nonDerivativeTable"), <<>>, txs) >> ELSE txs)
       \o << deriv >>)

T_XmlDecl == <<"<", "?", "x", "m", "l">>
T_Garbled == <<"<", "a", ">", "<", "b">>

\* The content of a document: its text (as far as the fetcher looks at it) and
\* the tree it parses to.
XmlOf(d) ==
  IF d.wellformed THEN [text |-> T_XmlDecl, parsed |-> Some(DocRoot(d))]
  ELSE [text |-> T_Garbled, parsed |-> NONE]

Doc(ns, nested, owners, txs) ==
  [ns |-> ns, nested |-> nested, owners |-> owners, txs |-> txs, wellformed |-> TRUE]

MalformedDoc ==
  [ns |-> "", nested |-> FALSE, owners |-> <<>>, txs |-> <<>>, wellformed |-> FALSE]

ParseInputs ==
  {Doc(ns, nested, o, t) : ns \in {"", NsUri}, nested \in BOOLEAN,
                           o \in SeqsUpTo(OwnerKinds, MaxOwners),
                           t \in SeqsUpTo(BasicTxs, MaxTxs)}
    \cup {Doc("", TRUE, <<"rpt">>, t) : t \in SeqsUpTo(CodedTxs, MaxTxs)}
    \cup {MalformedDoc}

\* The variables a specification of one function call does not use.
Idle ==
  /\ start_date = <<>> /\ end_date = <<>> /\ filings_json = <<>>
  /\ form4_filings = <<>> /\ idx = 0 /\ all_transactions = <<>>
  /\ stdout = <<>> /\ requests = <<>> /\ responses = <<>> /\ csvfile = NONE

InitParse == pc = "call" /\ input \in ParseInputs /\ result = NONE /\ Idle

CallParse ==
  /\ pc = "call"
  /\ result' = parse_non_derivative(XmlOf(input))
  /\ pc' = "returned"
  /\ UNCHANGED <<start_date, end_date, filings_json, form4_filings, idx,
                 all_transactions, stdout, requests, responses, csvfile, input>>

SpecParse == InitParse /\ [][CallParse]_vars

-----------------------------------------------------------------------------
(* filter_form4_filings as a function: SpecFilter *)

MaxEntries == 2

Date(y, m, d) == <<y, m, d>>
NotADate == <<>>

WindowDates == {Date(2020, 1, 1), Date(2020, 3, 1), NotADate}

FilingDates ==
  {Date(2019, 12, 31), Date(2020, 1, 1), Date(2020, 2, 29),
   Date(2020, 3, 1), Date(2020, 3, 2), Date(2020, 2, 30)}

FormTypes == {"4", "4/A", "8-K"}

\* The 'recent' section whose k-th filing has form and date entries[k]; the
\* accession number and the primary document tell k.
RecentOf(entries) ==
  [form |-> [k \in DOMAIN entries |-> entries[k].form],
   filingDate |-> [k \in DOMAIN entries |-> entries[k].date],
   accessionNumber |-> [k \in DOMAIN entries |-> <<"0", "0", "-", "2", "0", "-", Digit(k)>>],
   primaryDocument |-> [k \in DOMAIN entries |-> <<"x", "s", "l", "/", "f", Digit(k)>>]]

FilterInputs ==
  {[recent |-> RecentOf(e), start |-> s, end |-> t] :
     e \in SeqsUpTo([form : FormTypes, date : FilingDates], MaxEntries),
     s \in WindowDates, t \in WindowDates}

InitFilter == pc = "call" /\ input \in FilterInputs /\ result = NONE /\ Idle

CallFilter ==
  /\ pc = "call"
  /\ result' = filter_form4_filings(input.recent, input.start, input.end)
  /\ pc' = "returned"
  /\ UNCHANGED <<start_date, end_date, filings_json, form4_filings, idx,
                 all_transactions, stdout, requests, responses, csvfile, input>>

SpecFilter == InitFilter /\ [][CallFilter]_vars

-----------------------------------------------------------------------------
(* fetch_xml as a function: SpecFetch *)

Statuses == {200, 203, 404, 503}

BodyTexts ==
  {pre \o core \o post :
     pre \in {<<>>, <<"x">>, <<"<", "!">>},
     core \in {T_HtmlMarker, <<"<", "H", "T", "M", "L">>, <<"<", "H", "t", "m", "l">>,
               <<"<", "h", "t", "m">>, <<"h", "t", "m", "l">>,
               <<"<", " ", "h", "t", "m", "l">>, T_XmlDecl},
     post \in {<<>>, <<">">>}}

FetchInputs ==
  {[status |-> st, content |-> [text |-> b, parsed |-> NONE]] :
     st \in Statuses, b \in BodyTexts}

InitFetch == pc = "call" /\ input \in FetchInputs /\ result = NONE /\ Idle

CallFetch ==
  /\ pc = "call"
  /\ result' = fetch_xml(input)
  /\ pc' = "returned"
  /\ UNCHANGED <<start_date, end_date, filings_json, form4_filings, idx,
                 all_transactions, stdout, requests, responses, csvfile, input>>

SpecFetch == InitFetch /\ [][CallFetch]_vars

-----------------------------------------------------------------------------
(* The script: one run of the entry point, Spec *)

MaxFilings == 3

\* cik, start_date and end_date of the script. The two dates are the script's
\* constants; a run may also be given a malformed one in their place.
T_Cik == <<"0", "0", "0", "0", "0", "1", "9", "6", "1", "7">>
RunStartDates == {Date(2020, 1, 1), NotADate}
RunEndDates == {Date(2025, 10, 1), NotADate}

\* The filing indexes a run may be served: up to MaxFilings entries, each a
\* Form 4 or another form, dated inside the window, before it, or malformed.
RunEntries ==
  [form : {"4", "8-K"}, date : {Date(2020, 1, 1), Date(2019, 12, 31), Date(2020, 2, 30)}]
RunIndexes == SeqsUpTo(RunEntries, MaxFilings)

T_HtmlPage == <<"<", "!", "D", ">", "<", "H", "T", "M", "L", ">">>

\* The documents and responses a run may be served for one filing.
DocA == Doc("", TRUE, <<"rpt">>,
            <<[coding |-> Coding("direct", <<>>, <<"P">>), priced |-> TRUE],
              [coding |-> Coding("direct", <<>>, <<"S">>), priced |-> FALSE]>>)
DocB == Doc(NsUri, TRUE, <<"rpt", "alt">>,
            <<[coding |-> Coding("direct", <<>>, <<"A">>), priced |-> TRUE]>>)
DocC == Doc("", TRUE, <<"rpt">>, <<>>)

RunResponses ==
  {[status |-> 404, content |-> [text |-> <<>>, parsed |-> NONE]],
   [status |-> 200, content |-> [text |-> T_HtmlPage, parsed |-> NONE]],
   [status |-> 200, content |-> XmlOf(MalformedDoc)]}
    \cup {[status |-> 200, content |-> XmlOf(d)] : d \in {DocA, DocB, DocC}}

Line(kind, data) == [kind |-> kind, data |-> data]

\* The exceptions fetch_xml and parse_non_derivative raise: requests' HTTPError,
\* the ValueError of the HTML check and ElementTree's ParseError.
Exceptions == {"HTTPError", "ValueError", "ParseError"}

\* Mutant of Caught: except ValueError, which lets the other two through.
Caught_ValueErrorOnly(error) == error = "ValueError"

\* except Exception: every one of them is caught.
Caught(error) == error \in Exceptions

Init ==
  /\ pc = "start"
  /\ start_date \in RunStartDates
  /\ end_date \in RunEndDates
  /\ filings_json = RecentOf(<<>>)
  /\ form4_filings = <<>>
  /\ idx = 0
  /\ all_transactions = <<>>
  /\ stdout = <<>>
  /\ requests = <<>>
  /\ responses = <<>>
  /\ csvfile = NONE
  /\ input = <<>>
  /\ result = NONE

\* filings_json = screener.get_company_filings_json(cik): raise_for_status()
\* ends the run on an error status, else the JSON is kept.
GetCompanyFilings ==
  /\ pc = "start"
  /\ \E status \in {200, 404} : \E entries \in RunIndexes :
       IF HttpError(status)
       THEN /\ pc' = "aborted"
            /\ UNCHANGED filings_json
       ELSE /\ pc' = "filter"
            /\ filings_json' = RecentOf(entries)
  /\ UNCHANGED <<start_date, end_date, form4_filings, idx, all_transactions,
                 stdout, requests, responses, csvfile, input, result>>

\* form4_filings = screener.filter_form4_filings(...); all_transactions = [].
\* A ValueError of strptime is caught nowhere and ends the run.
FilterFilings ==
  /\ pc = "filter"
  /\ LET r == filter_form4_filings(filings_json, start_date, end_date)
     IN IF r.ok
        THEN /\ form4_filings' = r.value
             /\ idx' = 1
             /\ pc' = "loop"
        ELSE /\ pc' = "aborted"
             /\ UNCHANGED <<form4_filings, idx>>
  /\ UNCHANGED <<start_date, end_date, filings_json, all_transactions,
                 stdout, requests, responses, csvfile, input, result>>

\* One pass of `for f in form4_filings`: the GET of fetch_xml is answered by
\* resp; the records of the document are appended, or the exception of
\* fetch_xml or parse_non_derivative is caught and the skip line printed.
ProcessFiling ==
  /\ pc = "loop"
  /\ idx <= Len(form4_filings)
  /\ \E resp \in RunResponses :
       LET f == form4_filings[idx]
           xml == fetch_xml(resp)
           parsed == IF xml.ok THEN parse_non_derivative(xml.value) ELSE xml
       IN /\ requests' = Append(requests,
                           FetchUrl(T_Cik, f.accession_number, f.primaryDocument))
          /\ responses' = Append(responses, resp)
          /\ IF parsed.ok
             THEN /\ all_transactions' = all_transactions \o parsed.value
                  /\ stdout' = stdout \o parsed.printed
                  /\ idx' = idx + 1
                  /\ UNCHANGED pc
             ELSE IF Caught(parsed.error)
             THEN /\ stdout' = Append(stdout,
                                 Line("skipped", <<f.accession_number, parsed.error>>))
                  /\ idx' = idx + 1
                  /\ UNCHANGED <<all_transactions, pc>>
             ELSE /\ pc' = "aborted"
                  /\ UNCHANGED <<all_transactions, stdout, idx>>
  /\ UNCHANGED <<start_date, end_date, filings_json, form4_filings,
                 csvfile, input, result>>

\* Mutant of PrintCount: the number of filings is printed for the count.
PrintCount_OfFilings ==
  /\ pc = "loop"
  /\ idx > Len(form4_filings)
  /\ stdout' = Append(stdout, Line("found", Len(form4_filings)))
  /\ pc' = "export"
  /\ UNCHANGED <<start_date, end_date, filings_json, form4_filings, idx,
                 all_transactions, requests, responses, csvfile, input, result>>

\* print(f"Found {len(all_transactions)} non-derivative transactions ...")
PrintCount ==
  /\ pc = "loop"
  /\ idx > Len(form4_filings)
  /\ stdout' = Append(stdout, Line("found", Len(all_transactions)))
  /\ pc' = "export"
  /\ UNCHANGED <<start_date, end_date, filings_json, form4_filings, idx,
                 all_transactions, requests, responses, csvfile, input, result>>

\* The str csv writes for a value: '' for None.
Cell(v) == IF v = NONE THEN <<>> ELSE v[1]

\* DictWriter's row of a dict: the values under the field names, in their order.
RowOf(fieldnames, d) == [k \in DOMAIN fieldnames |-> Cell(Get(d, fieldnames[k]))]

\* Mutant of CsvOf: the first record is used for the header and not written.
CsvOf_DropsFirstRow(transactions) ==
  LET fieldnames == Keys(transactions[1])
  IN [name |-> <<"JPM_form4", start_date, end_date>>,
      header |-> fieldnames,
      rows |-> [k \in DOMAIN Tail(transactions) |->
                  RowOf(fieldnames, Tail(transactions)[k])]]

\* What writeheader() and writerows(all_transactions) leave in the file.
CsvOf(transactions) ==
  LET fieldnames == Keys(transactions[1])
  IN [name |-> <<"JPM_form4", start_date, end_date>>,
      header |-> fieldnames,
      rows |-> [k \in DOMAIN transactions |-> RowOf(fieldnames, transactions[k])]]

\* if all_transactions: write the CSV file; else: print the notice.
Export ==
  /\ pc = "export"
  /\ IF all_transactions # <<>>
     THEN /\ csvfile' = Some(CsvOf(all_transactions))
          /\ stdout' = Append(stdout, Line("saved", Len(all_transactions)))
     ELSE /\ stdout' = Append(stdout, Line("nothing to save", 0))
          /\ UNCHANGED csvfile
  /\ pc' = "done"
  /\ UNCHANGED <<start_date, end_date, filings_json, form4_filings, idx,
                 all_transactions, requests, responses, input, result>>

Next == GetCompanyFilings \/ FilterFilings \/ ProcessFiling \/ PrintCount \/ Export

Spec == Init /\ [][Next]_vars

\* The script runs on while it has a statement to run.
FairSpec == Spec /\ WF_vars(Next)

-----------------------------------------------------------------------------
(* Properties of parse_non_derivative, checked under SpecParse *)

Returned == pc = "returned"

Records == result.value

\* C2 as stated: the derived type is decided by the record's transaction code
\* itself: BUY for a code in {P,F,A,M,E,J}, SELL for a code in {S,D,G,W},
\* OTHER for every other code, the empty and the absent one included.
C2_TypeOfRawCode ==
  Returned =>
    \A k \in DOMAIN Records :
      LET code == Get(Records[k], "transaction_code")
          type == Get(Records[k], "transaction_type")
      IN /\ code \in {Some(c) : c \in BuyCodes} => type = Some(T_BUY)
         /\ code \in {Some(c) : c \in SellCodes} => type = Some(T_SELL)
         /\ code \notin {Some(c) : c \in BuyCodes \cup SellCodes} => type = Some(T_OTHER)

\* The code of a record with the white space around it removed ('' when absent).
StrippedCode(rec) ==
  LET code == Get(rec, "transaction_code")
  IN IF code = NONE THEN <<>>
     ELSE LET first == {i \in DOMAIN code[1] : code[1][i] \notin Whitespace}
          IN IF first = {} THEN <<>>
             ELSE SubSeq(code[1], CHOOSE i \in first : \A j \in first : i <= j,
                                  CHOOSE i \in first : \A j \in first : i >= j)

\* C2 (amended): the derived type of every record is a fixed total function of
\* its transaction code with leading and trailing white space removed: BUY for
\* P,F,A,M,E,J, SELL for S,D,G,W, OTHER for anything else, empty or absent.
C2_TypeOfStrippedCode ==
  Returned =>
    \A k \in DOMAIN Records :
      LET code == StrippedCode(Records[k])
          type == Get(Records[k], "transaction_type")
      IN /\ code \in BuyCodes => type = Some(T_BUY)
         /\ code \in SellCodes => type = Some(T_SELL)
         /\ code \notin BuyCodes \cup SellCodes => type = Some(T_OTHER)

\* A padded code classified by its letter beside an absent code classified OTHER.
C2_Witness ==
  /\ Returned
  /\ \E k \in DOMAIN Records :
       /\ Get(Records[k], "transaction_code") = Some(<<"S", "\n">>)
       /\ Get(Records[k], "transaction_type") = Some(T_SELL)
  /\ \E k \in DOMAIN Records :
       /\ Get(Records[k], "transaction_code") = NONE
       /\ Get(Records[k], "transaction_type") = Some(T_OTHER)

\* What the four kinds of reportingOwner element state: name and title.
StatedName(kind) ==
  CASE kind = "rpt" -> T_Dimon [] kind = "alt" -> T_Lake [] OTHER -> T_Unknown
StatedTitle(kind) ==
  CASE kind = "rpt" -> T_CEO [] kind = "anonymous" -> T_CFO [] OTHER -> <<>>

OwnerKeys == {"officer_name", "officer_title"}

\* C3: a well-formed document with O reportingOwner and T
\* nonDerivativeTransaction elements gives exactly O*T records, transaction by
\* transaction in document order and, within one transaction, owner by owner in
\* document order; the O records of a transaction differ in nothing but the
\* owner's name and title.
C3_CrossProduct ==
  (Returned /\ input.wellformed) =>
    LET O == Len(input.owners)
        T == Len(input.txs)
        rec(t, o) == Records[(t - 1) * O + o]
    IN /\ result.ok
       /\ Len(Records) = O * T
       /\ \A t \in 1..T : \A o \in 1..O :
            /\ Get(rec(t, o), "transaction_date") = Some(<<"d", Digit(t)>>)
            /\ Get(rec(t, o), "shares") = Some(<<Digit(t), "0", "0">>)
            /\ Get(rec(t, o), "officer_name") = Some(StatedName(input.owners[o]))
            /\ Get(rec(t, o), "officer_title") = Some(StatedTitle(input.owners[o]))
            /\ Keys(rec(t, o)) = Keys(rec(t, 1))
            /\ \A k \in DOMAIN rec(t, o) :
                 rec(t, o)[k][1] \notin OwnerKeys => rec(t, o)[k] = rec(t, 1)[k]

\* Two owners of different names and two transactions: four records.
C3_Witness ==
  /\ Returned /\ input.wellformed
  /\ Len(input.owners) = 2 /\ Len(input.txs) = 2
  /\ input.owners[1] # input.owners[2]
  /\ Len(Records) = 4
  /\ Get(Records[1], "officer_name") # Get(Records[2], "officer_name")
  /\ Get(Records[2], "transaction_date") # Get(Records[3], "transaction_date")

OtherNs(ns) == IF ns = "" THEN NsUri ELSE ""

\* C7: a document with every element in the namespace declared on its root and
\* the same document without a namespace give the same sequence of records.
C7_NamespaceBlind ==
  Returned =>
    parse_non_derivative(XmlOf([input EXCEPT !.ns = OtherNs(input.ns)])) = result

\* A namespaced document that yields records.
C7_Witness ==
  /\ Returned /\ input.wellformed /\ input.ns = NsUri
  /\ Len(Records) >= 2

-----------------------------------------------------------------------------
(* Properties of filter_form4_filings, checked under SpecFilter *)

DaysBefore == <<0, 31, 59, 90, 120, 151, 181, 212, 243, 273, 304, 334>>

\* The number of the day d = <<y, m, d>> in the proleptic Gregorian calendar.
Ordinal(d) ==
  LET y == d[1] - 1
  IN 365 * y + (y \div 4) - (y \div 100) + (y \div 400)
       + DaysBefore[d[2]] + (IF d[2] > 2 /\ LeapYear(d[1]) THEN 1 ELSE 0) + d[3]

MonthLengths == <<31, 28, 31, 30, 31, 30, 31, 31, 30, 31, 30, 31>>

\* s is a date of the calendar, written y-m-d.
WellFormedDate(s) ==
  /\ Len(s) = 3
  /\ s[1] >= 1 /\ s[2] >= 1 /\ s[2] <= 12 /\ s[3] >= 1
  /\ s[3] <= MonthLengths[s[2]] + (IF s[2] = 2 /\ LeapYear(s[1]) THEN 1 ELSE 0)

\* The positions of the index that are Form 4 filings dated within the window.
InWindow(in, k) ==
  /\ in.recent.form[k] \in {"4", "4/A"}
  /\ WellFormedDate(in.recent.filingDate[k])
  /\ Ordinal(in.start) <= Ordinal(in.recent.filingDate[k])
  /\ Ordinal(in.recent.filingDate[k]) <= Ordinal(in.end)

Selected(in) ==
  LET n == Len(in.recent.form)
      ks == SelectSeq([k \in 1..n |-> k], LAMBDA k : InWindow(in, k))
  IN [j \in DOMAIN ks |->
        [accession_number |-> in.recent.accessionNumber[ks[j]],
         primaryDocument |-> in.recent.primaryDocument[ks[j]]]]

\* C4: for valid start and end dates the selector returns, in source order,
\* exactly the entries of form type '4' or '4/A' dated from the start date to
\* the end date, both included; it returns unless a Form 4 entry carries a
\* malformed date.
C4_SelectsWindow ==
  (Returned /\ WellFormedDate(input.start) /\ WellFormedDate(input.end)) =>
    /\ result.ok <=>
         \A k \in DOMAIN input.recent.form :
           input.recent.form[k] \in {"4", "4/A"} => WellFormedDate(input.recent.filingDate[k])
    /\ result.ok => result.value = Selected(input)

\* An amendment dated exactly the end date is selected, a Form 4 dated the day
\* before the start date is not, and another form inside the window exists too.
C4_Witness ==
  /\ Returned /\ result.ok
  /\ WellFormedDate(input.start) /\ WellFormedDate(input.end)
  /\ Len(input.recent.form) = 2
  /\ input.recent.form[1] = "4"
  /\ WellFormedDate(input.recent.filingDate[1])
  /\ Ordinal(input.recent.filingDate[1]) = Ordinal(input.start) - 1
  /\ input.recent.form[2] = "4/A"
  /\ input.recent.filingDate[2] = input.end
  /\ result.value = <<[accession_number |-> input.recent.accessionNumber[2],
                       primaryDocument |-> input.recent.primaryDocument[2]]>>

-----------------------------------------------------------------------------
(* Properties of fetch_xml, checked under SpecFetch *)

\* The text holds "<html" at some place, in any mix of upper and lower case.
HasHtmlMarker(text) ==
  \E k \in 1..(Len(text) - 4) :
    /\ text[k] = "<"
    /\ text[k + 1] \in {"h", "H"} /\ text[k + 2] \in {"t", "T"}
    /\ text[k + 3] \in {"m", "M"} /\ text[k + 4] \in {"l", "L"}

\* C6: on a success status, a body holding the HTML root marker in any letter
\* case makes fetch_xml raise the content-mismatch error, and a body without
\* it is returned unchanged; what fetch_xml returns never holds the marker.
C6_NeverReturnsHtml ==
  Returned =>
    /\ (~HttpError(input.status) /\ HasHtmlMarker(input.content.text)) =>
         (~result.ok /\ result.error = "ValueError")
    /\ (~HttpError(input.status) /\ ~HasHtmlMarker(input.content.text)) =>
         (result.ok /\ result.value = input.content)
    /\ result.ok => ~HasHtmlMarker(result.value.text)

\* A success response whose body holds the marker in upper case was refused.
C6_Witness ==
  /\ Returned
  /\ input.status = 200
  /\ Contains(input.content.text, <<"<", "H", "T", "M", "L">>)
  /\ ~result.ok /\ result.error = "ValueError"

-----------------------------------------------------------------------------
(* Properties of a run, checked under Spec and FairSpec *)

\* What failed for the filing answered by resp: an HTTP error status, an HTML
\* page in place of the document, or markup that is not well-formed.
Failed(resp) ==
  \/ resp.status \in 400..599
  \/ HasHtmlMarker(resp.content.text)
  \/ resp.content.parsed = NONE

LoopOver == pc \in {"export", "done"}

\* C1: a filing whose fetch or parse fails is skipped with a line naming its
\* accession number, adds no record, and does not stop the loop: every selected
\* filing is requested, in source order, whatever failed before it.
C1_SkipAndContinue ==
  /\ [][(pc = "loop" /\ idx' = idx + 1 /\ Failed(responses'[idx])) =>
          /\ all_transactions' = all_transactions
          /\ Len(stdout') = Len(stdout) + 1
          /\ stdout'[Len(stdout')].kind = "skipped"
          /\ stdout'[Len(stdout')].data[1] = form4_filings[idx].accession_number
          /\ pc' = "loop"]_vars
  /\ [](pc = "aborted" => requests = <<>>)
  /\ [](LoopOver =>
          /\ Len(requests) = Len(form4_filings)
          /\ \A k \in DOMAIN requests :
               requests[k] = FetchUrl(T_Cik, form4_filings[k].accession_number,
                                      form4_filings[k].primaryDocument))

\* Three filings: the first met an HTTP error, the second an HTML page, the
\* third malformed markup or a document; all three were requested.
C1_Witness ==
  /\ pc = "done"
  /\ Len(responses) = 3 /\ Len(requests) = 3
  /\ responses[1].status = 404
  /\ responses[2].content.text = T_HtmlPage
  /\ responses[3] = [status |-> 200, content |-> XmlOf(DocB)]
  /\ Len(all_transactions) = 2
  /\ Len(SelectSeq(stdout, LAMBDA l : l.kind = "skipped")) = 2

\* The number of elements below root whose local name is name.
CountLocal(root, name) ==
  Len(SelectSeq(Descendants(root), LAMBDA e : e.tag[Len(e.tag)] = name))

\* Owners times transactions of the filings answered so far whose fetch and
\* parse both succeeded, summed.
RECURSIVE SumOwnersTimesTxs(_)
SumOwnersTimesTxs(resps) ==
  IF resps = <<>> THEN 0
  ELSE (IF Failed(Head(resps)) THEN 0
        ELSE CountLocal(Head(resps).content.parsed[1], "reportingOwner")
               * CountLocal(Head(resps).content.parsed[1], "nonDerivativeTransaction"))
       + SumOwnersTimesTxs(Tail(resps))

RowsExported == IF csvfile = NONE THEN 0 ELSE Len(csvfile[1].rows)

\* The entry k of the index is a Form 4 filing dated within the window.
EntrySelected(k) ==
  /\ filings_json.form[k] \in {"4", "4/A"}
  /\ WellFormedDate(filings_json.filingDate[k])
  /\ WellFormedDate(start_date) /\ WellFormedDate(end_date)
  /\ Ordinal(start_date) <= Ordinal(filings_json.filingDate[k])
  /\ Ordinal(filings_json.filingDate[k]) <= Ordinal(end_date)

\* C5: a document is requested only for a filing the selector returned (a Form 4
\* entry dated within the window), and the rows exported are as many as the
\* owners times transactions of the filings fetched and parsed, summed.
C5_FetchesSelectedExportsAll ==
  /\ \A r \in DOMAIN requests :
       \E k \in DOMAIN filings_json.form :
         /\ EntrySelected(k)
         /\ requests[r].acc_clean = SelectSeq(filings_json.accessionNumber[k],
                                              LAMBDA c : c # "-")
  /\ pc = "done" => RowsExported = SumOwnersTimesTxs(responses)

\* Three Form 4 entries, the second dated before the window; a document of one
\* owner and two transactions and one of two owners and one transaction: two
\* requests, four rows.
C5_Witness ==
  /\ pc = "done"
  /\ filings_json.form = <<"4", "4", "4">>
  /\ EntrySelected(1) /\ ~EntrySelected(2) /\ EntrySelected(3)
  /\ Len(requests) = 2
  /\ responses = <<[status |-> 200, content |-> XmlOf(DocA)],
                   [status |-> 200, content |-> XmlOf(DocB)]>>
  /\ RowsExported = 4

LastLine == stdout[Len(stdout)]

\* C8: the file exists only once the run is done and then exactly when records
\* were aggregated; without records the zero count and the notice are printed;
\* the file's header is the keys of the first record and its rows are the
\* records' values, one row per record in aggregation order.
C8_FileIffRecords ==
  /\ csvfile # NONE => pc = "done"
  /\ pc = "done" =>
       /\ csvfile # NONE <=> Len(all_transactions) > 0
       /\ Len(all_transactions) = 0 =>
            /\ LastLine.kind = "nothing to save"
            /\ stdout[Len(stdout) - 1] = Line("found", 0)
       /\ Len(all_transactions) > 0 =>
            /\ csvfile[1].header = [j \in DOMAIN all_transactions[1] |->
                                      all_transactions[1][j][1]]
            /\ Len(csvfile[1].rows) = Len(all_transactions)
            /\ \A k \in DOMAIN all_transactions :
                 \A j \in DOMAIN all_transactions[k] :
                   csvfile[1].rows[k][j] =
                     (IF all_transactions[k][j][2] = NONE THEN <<>>
                      ELSE all_transactions[k][j][2][1])

\* A file of four rows, one of them with an empty price, written after a
\* filing was skipped.
C8_Witness ==
  /\ pc = "done" /\ csvfile # NONE
  /\ Len(csvfile[1].rows) = 4
  /\ Len(csvfile[1].header) = 8
  /\ \E k \in DOMAIN csvfile[1].rows : csvfile[1].rows[k][7] = <<>>
  /\ \E k \in DOMAIN stdout : stdout[k].kind = "skipped"

FoundLines == SelectSeq(stdout, LAMBDA l : l.kind = "found")
CountEmitted == FoundLines # <<>>

\* C9 as stated: every run, whatever the index fetch and the selection came to,
\* has emitted the final count when it ends.
C9_AlwaysCount == pc \in {"done", "aborted"} => CountEmitted

\* C9 (amended): every run whose index fetch and selection succeed goes on to
\* emit the final count, once, and the count is the number of records in the
\* accumulator after the last filing was processed.
C9_CountAfterSelection ==
  /\ (pc = "loop") ~> CountEmitted
  /\ [](CountEmitted =>
          /\ Len(FoundLines) = 1
          /\ FoundLines[1].data = Len(all_transactions)
          /\ idx = Len(form4_filings) + 1)

\* The count 4 emitted after three filings, one of them skipped.
C9_Witness ==
  /\ CountEmitted
  /\ FoundLines[1].data = 4
  /\ Len(form4_filings) = 3
  /\ \E k \in DOMAIN responses : Failed(responses[k])

FilterDone == pc \notin {"start", "filter"}

NothingDone == requests = <<>> /\ all_transactions = <<>> /\ csvfile = NONE

\* C10 as stated: a malformed start date, end date or filing date of any entry
\* of the index aborts the run before anything is fetched, aggregated or written.
C10_AnyMalformedDateAborts ==
  (/\ FilterDone
   /\ \/ ~WellFormedDate(start_date)
      \/ ~WellFormedDate(end_date)
      \/ \E k \in DOMAIN filings_json.filingDate :
           ~WellFormedDate(filings_json.filingDate[k]))
    => (pc = "aborted" /\ NothingDone)

IsForm4(k) == filings_json.form[k] \in {"4", "4/A"}

\* The malformed dates the selector comes to parse.
ParsesMalformedDate ==
  \/ \E k \in DOMAIN filings_json.form :
       IsForm4(k) /\ ~WellFormedDate(filings_json.filingDate[k])
  \/ /\ ~WellFormedDate(start_date)
     /\ \E k \in DOMAIN filings_json.form : IsForm4(k)
  \/ /\ ~WellFormedDate(end_date)
     /\ WellFormedDate(start_date)
     /\ \E k \in DOMAIN filings_json.form :
          /\ IsForm4(k)
          /\ WellFormedDate(filings_json.filingDate[k])
          /\ Ordinal(start_date) <= Ordinal(filings_json.filingDate[k])

\* C10 (amended): the run aborts, with nothing fetched, aggregated or written,
\* if the filing date of a Form 4 or 4/A entry is malformed, or the start date
\* is malformed and the index holds a Form 4 or 4/A entry, or the end date is
\* malformed and a Form 4 or 4/A entry is dated on or after the start date.
C10_ParsedMalformedDateAborts ==
  (FilterDone /\ ParsesMalformedDate) => (pc = "aborted" /\ NothingDone)

\* A run aborted by its malformed end date alone.
C10_Witness ==
  /\ pc = "aborted"
  /\ ~WellFormedDate(end_date) /\ WellFormedDate(start_date)
  /\ Len(filings_json.form) = 2
  /\ \A k \in DOMAIN filings_json.form : WellFormedDate(filings_json.filingDate[k])
  /\ NothingDone

=============================================================================
